---- MODULE Spec2Model ----
(***************************************************************************)
(* Model of the three relation circuits of REUAnalysis (elgamal-proof,     *)
(* abe-proof, pairing-proof) and of the benchmark mains that drive them.   *)
(*                                                                         *)
(* Scaling.  The scalar fields (ark_bls12_381::Fr for ElGamal,             *)
(* ark_bls12_377::Fr for the two pairing circuits) are modelled by prime   *)
(* fields of small odd order q.  The groups G1, G2 and the target group    *)
(* have prime order q and are written by discrete logarithm: a point of G1 *)
(* is the d with point = g1^d, pairing(g1^a, g2^b) = e(g1,g2)^(a*b).  Fq12 *)
(* is modelled by the target group plus its zero.  SHA-256 is a small      *)
(* mixing function that is injective on the byte strings the model hashes. *)
(* A constraint is modelled by the gadget that emitted it and by whether   *)
(* the assignment computed during synthesis satisfies it.                  *)
(***************************************************************************)
EXTENDS Integers, Sequences, FiniteSets, TLC

\* ---------------------------------------------------------------- bounds
\* Largest field modulus explored (the moduli are the odd primes up to it).
MaxModulus == 5
\* Number of fields of an honestly built circuit a caller may overwrite.
MaxCorrupt == 1
\* Iterations of the benchmark loop explored (ITERATIONS / iterations = 10).
MaxIter == 2

\* ------------------------------------------------------- program constants
\* [u8; 32]: the digest length in bytes.
DigestLen == 32

IsPrime(n) == n > 1 /\ \A d \in 2..(n - 1) : n % d # 0
Moduli == {n \in 3..MaxModulus : IsPrime(n)}

\* ------------------------------------------------------------- arithmetic
RECURSIVE Pow2(_)
Pow2(n) == IF n = 0 THEN 1 ELSE 2 * Pow2(n - 1)

RECURSIVE BitLen(_)
BitLen(n) == IF n = 0 THEN 0 ELSE 1 + BitLen(n \div 2)

\* PrimeField::MODULUS_BIT_SIZE
MODULUS_BIT_SIZE(q) == BitLen(q)

\* number of bytes that hold n bits
CeilDiv8(n) == (n + 7) \div 8

\* to_bits_le of an allocated field element: the canonical little-endian
\* bits, MODULUS_BIT_SIZE of them (the gadget enforces the value is below q).
to_bits_le(q, x) == [i \in 1..MODULUS_BIT_SIZE(q) |-> (x \div Pow2(i - 1)) % 2]

\* BigInteger::to_bits_le out of circuit: the bits of the whole big integer,
\* little-endian (the limbs round the length up; the extra bits are zero).
bigint_to_bits_le(q, x) ==
    [i \in 1..(8 * CeilDiv8(MODULUS_BIT_SIZE(q))) |-> (x \div Pow2(i - 1)) % 2]

\* BigInteger::to_bytes_le out of circuit.
bigint_to_bytes_le(q, x) ==
    [j \in 1..CeilDiv8(MODULUS_BIT_SIZE(q)) |-> (x \div Pow2(8 * (j - 1))) % 256]

\* Field::inverse().unwrap_or_else(zero) as the inverse gadget assigns it.
FpInverseOrZero(q, x) ==
    IF x % q = 0 THEN 0 ELSE CHOOSE y \in 1..(q - 1) : (x * y) % q = 1

\* Fq12 (the target group written by exponent, and zero).
Fq12Zero == 0 - 1
Fq12One == 0
Fq12Mul(q, a, b) == IF a < 0 \/ b < 0 THEN Fq12Zero ELSE (a + b) % q
Fq12InverseOrZero(q, a) == IF a < 0 THEN Fq12Zero ELSE (q - a) % q

\* The multiplication and the unit of the three structures the circuits
\* exponentiate in: "fp" the scalar field, "gt" Fq12, "g" a source group
\* (G1 or G2, written additively by discrete logarithm).
MulK(kind, q, a, b) ==
    CASE kind = "fp" -> (a * b) % q
      [] kind = "gt" -> Fq12Mul(q, a, b)
      [] kind = "g"  -> (a + b) % q
UnitK(kind) == IF kind = "fp" THEN 1 ELSE 0

\* The square-and-multiply loop: bits scanned from the least significant,
\* result multiplied by the running base where the bit is set, base squared.
RECURSIVE PowLoop(_, _, _, _, _, _)
PowLoop(kind, q, result, current_base, bits, i) ==
    IF i > Len(bits) THEN result
    ELSE PowLoop(kind, q,
                 IF bits[i] = 1 THEN MulK(kind, q, result, current_base) ELSE result,
                 MulK(kind, q, current_base, current_base),
                 bits, i + 1)

\* a mutated exponentiation that scans one bit too few
efficient_exponentiation_short(q, base, exp) ==
    PowLoop("fp", q, 1, base, SubSeq(to_bits_le(q, exp), 1, MODULUS_BIT_SIZE(q) - 1), 1)

\* efficient_exponentiation (elgamal circuit.rs): the value of the result.
efficient_exponentiation(q, base, exp) == PowLoop("fp", q, 1, base, to_bits_le(q, exp), 1)

\* a mutated compute_power whose accumulator starts at the base
compute_power_from_base(q, base, exponent) ==
    PowLoop("fp", q, base, base, bigint_to_bits_le(q, exponent), 1)

\* compute_power (elgamal main.rs): the same loop over the big integer's bits.
compute_power(q, base, exponent) == PowLoop("fp", q, 1, base, bigint_to_bits_le(q, exponent), 1)

\* FieldVar::pow_le and CurveVar::scalar_mul_le of the library: the same
\* loop in the structure of the base.
pow_le(kind, q, base, bits) == PowLoop(kind, q, UnitK(kind), base, bits, 1)

\* Field::pow out of circuit (base^exp, exp read as an integer).
RECURSIVE FieldPow(_, _, _)
FieldPow(q, base, e) == IF e = 0 THEN 1 ELSE (base * FieldPow(q, base, e - 1)) % q

\* UInt8::from_bits_le over chunks(8) of the bits, a short last chunk filled
\* with FALSE.
BitAt(bits, k) == IF k <= Len(bits) THEN bits[k] ELSE 0
\* a mutated packing that takes the first bit of a chunk as the most significant
ByteOfMsbFirst(bits, j) ==
    128 * BitAt(bits, 8 * j - 7) + 64 * BitAt(bits, 8 * j - 6) + 32 * BitAt(bits, 8 * j - 5)
    + 16 * BitAt(bits, 8 * j - 4) + 8 * BitAt(bits, 8 * j - 3) + 4 * BitAt(bits, 8 * j - 2)
    + 2 * BitAt(bits, 8 * j - 1) + BitAt(bits, 8 * j)
ByteOf(bits, j) ==
    BitAt(bits, 8 * j - 7) + 2 * BitAt(bits, 8 * j - 6) + 4 * BitAt(bits, 8 * j - 5)
    + 8 * BitAt(bits, 8 * j - 4) + 16 * BitAt(bits, 8 * j - 3) + 32 * BitAt(bits, 8 * j - 2)
    + 64 * BitAt(bits, 8 * j - 1) + 128 * BitAt(bits, 8 * j)
field_to_bytes_optimized(bits) == [j \in 1..CeilDiv8(Len(bits)) |-> ByteOf(bits, j)]

\* ------------------------------------------------------------------ SHA-256
\* A stand-in for SHA-256 (in circuit: Sha256Gadget::evaluate, out of circuit:
\* sha2::Sha256): a function of the byte string only, DigestLen bytes long.
RECURSIVE ShaMix(_, _, _)
ShaMix(bytes, i, h) ==
    IF i > Len(bytes) THEN h ELSE ShaMix(bytes, i + 1, (h * 33 + bytes[i] + 1) % 65521)
Sha256(bytes) ==
    LET h == ShaMix(bytes, 1, Len(bytes))
    IN  [i \in 1..DigestLen |-> ((IF i % 2 = 1 THEN h % 256 ELSE h \div 256) + 17 * i) % 256]

\* -------------------------------------------------------- constraint system
\* ConstraintSystem::new_ref(): no constraint, no witness, and the instance
\* assignment holding the constant one.  An instance or witness entry is the
\* little-endian byte string of the value it holds.
One == <<1>>
NewCs == [constraints |-> <<>>, instance |-> <<One>>, witness |-> <<>>]

Cst(g, ok) == [gadget |-> g, ok |-> ok]
Repeat(x, n) == [i \in 1..n |-> x]

\* What a gadget adds to the constraint system it is given: the witness
\* values it allocates, the constraints it enforces, the public inputs it
\* allocates, each in order.
Delta(ws, cons, ins) == [witness |-> ws, constraints |-> cons, instance |-> ins]
Nothing == Delta(<<>>, <<>>, <<>>)
Cat(a, b) == Delta(a.witness \o b.witness, a.constraints \o b.constraints,
                   a.instance \o b.instance)
\* new_witness / enforce_constraint
Emit(ws, cons) == Delta(ws, cons, <<>>)
\* new_input
EmitInput(entries) == Delta(<<>>, <<>>, entries)

\* a mutated append that rewrites the constraints already there
ApplyRewriting(cs, d) ==
    [constraints |-> d.constraints, instance |-> cs.instance \o d.instance,
     witness |-> cs.witness \o d.witness]
\* The constraint system after a gadget ran on it: everything is appended.
Apply(cs, d) ==
    [constraints |-> cs.constraints \o d.constraints,
     instance |-> cs.instance \o d.instance,
     witness |-> cs.witness \o d.witness]

\* ConstraintSystemRef::is_satisfied
is_satisfied(cs) == \A i \in 1..Len(cs.constraints) : cs.constraints[i].ok
num_constraints(cs) == Len(cs.constraints)
num_witness_variables(cs) == Len(cs.witness)
num_instance_variables(cs) == Len(cs.instance)

\* The to_bits_le gadget: one boolean witness and one booleanity constraint
\* per bit, and the check that the bits are below the modulus.
ToBitsGadget(q, x) ==
    Emit([i \in 1..MODULUS_BIT_SIZE(q) |-> <<to_bits_le(q, x)[i]>>],
         Repeat(Cst("boolean", TRUE), MODULUS_BIT_SIZE(q)) \o <<Cst("in_field", TRUE)>>)

\* UInt8::new_input_vec: the bytes are packed into as few field elements as
\* hold them (31 bytes in ark_bls12_381::Fr, 47 in ark_bls12_377::Fq), each
\* allocated as one public input and unpacked into bits.
MaxInputBytes(r) == IF r = "elgamal" THEN 31 ELSE 47
Min(a, b) == IF a < b THEN a ELSE b
Chunks(bytes, size) ==
    [k \in 1..((Len(bytes) + size - 1) \div size) |->
        SubSeq(bytes, (k - 1) * size + 1, Min(k * size, Len(bytes)))]
new_input_vec(r, bytes) ==
    LET packed == Chunks(bytes, MaxInputBytes(r))
    IN  Delta([i \in 1..Len(bytes) |-> <<bytes[i]>>],
              Repeat(Cst("unpack", TRUE), Len(packed)),
              packed)

\* The Sha256 gadget: its constraints depend on the number of input bytes
\* only (one per 64-byte block of the padded input); the digest bytes are
\* witnesses.
Sha256Gadget(bytes) ==
    Emit([i \in 1..DigestLen |-> <<Sha256(bytes)[i]>>],
         Repeat(Cst("sha256_block", TRUE), (Len(bytes) + 9 + 63) \div 64))

\* enforce_equal of two byte vectors, byte by byte.  Both callers hand it the
\* 32-byte digest and the 32 allocated bytes of the public digest.
EnforceBytesEqual(a, b) ==
    Emit(<<>>, [i \in 1..Min(Len(a), Len(b)) |-> Cst("enforce_equal_byte", a[i] = b[i])])

\* the running base before iteration i: the base squared i-1 times
RECURSIVE CurrentBase(_, _, _, _)
CurrentBase(kind, q, base, i) ==
    IF i = 1 THEN base
    ELSE LET b == CurrentBase(kind, q, base, i - 1) IN MulK(kind, q, b, b)
\* the result before iteration i
ResultBefore(kind, q, base, bits, i) ==
    PowLoop(kind, q, UnitK(kind), base, SubSeq(bits, 1, i - 1), 1)

\* a mutated iteration that multiplies only where the bit is set
LoopBitBranching(kind, q, base, bits, i) ==
    LET result == ResultBefore(kind, q, base, bits, i)
        cur    == CurrentBase(kind, q, base, i)
        temp   == MulK(kind, q, result, cur)
    IN  Cat(IF bits[i] = 1 THEN Emit(<< <<temp>> >>, <<Cst("mul", TRUE)>>) ELSE Nothing,
            Emit(<< <<MulK(kind, q, cur, cur)>> >>, <<Cst("square", TRUE)>>))

\* One iteration of the loop as a gadget (elgamal circuit.rs lines 81-88, and
\* the library's pow_le / scalar_mul_le): temp = result * current_base is
\* always computed (the first result is the constant unit, so the first
\* product costs no constraint), bit.select chooses, the base is squared.
LoopBit(kind, q, base, bits, i) ==
    LET result == ResultBefore(kind, q, base, bits, i)
        cur    == CurrentBase(kind, q, base, i)
        temp   == MulK(kind, q, result, cur)
    IN  Cat(IF i > 1 THEN Emit(<< <<temp>> >>, <<Cst("mul", TRUE)>>) ELSE Nothing,
            Emit(<< <<IF bits[i] = 1 THEN temp ELSE result>>, <<MulK(kind, q, cur, cur)>> >>,
                 <<Cst("select", TRUE), Cst("square", TRUE)>>))

RECURSIVE LoopGadget(_, _, _, _, _)
LoopGadget(kind, q, base, bits, i) ==
    IF i > Len(bits) THEN Nothing
    ELSE Cat(LoopBit(kind, q, base, bits, i), LoopGadget(kind, q, base, bits, i + 1))

\* ------------------------------------------------ ElGamal relation circuit
\* OptimizedElGamalEncryptionCircuit { ct: [c1, c2], bid, hdk }
ElgCircuit(c1, c2, bid, hdk) == [ct |-> <<c1, c2>>, bid |-> bid, hdk |-> hdk]

\* values of the local variables of generate_constraints
ElgS(q, c) == efficient_exponentiation(q, c.ct[1], c.hdk)
ElgInverseS(q, c) == FpInverseOrZero(q, ElgS(q, c))
ElgM(q, c) == (c.ct[2] * ElgInverseS(q, c)) % q
ElgMBytes(q, c) == field_to_bytes_optimized(to_bits_le(q, ElgM(q, c)))
ElgHashBytes(q, c) == Sha256(ElgMBytes(q, c))

\* a mutated allocation that allocates hdk as a public input
ElgAllocateHdkAsInput(q, c) ==
    Cat(Cat(EmitInput(<< <<c.ct[1]>>, <<c.ct[2]>> >>), new_input_vec("elgamal", c.bid)),
        EmitInput(<< <<c.hdk>> >>))
\* a mutated allocation that allocates the digest before the ciphertext
ElgAllocateDigestFirst(q, c) ==
    Cat(Cat(new_input_vec("elgamal", c.bid), EmitInput(<< <<c.ct[1]>>, <<c.ct[2]>> >>)),
        Emit(<< <<c.hdk>> >>, <<>>))
\* lines 32-39: c1, c2, bid as public inputs in this order, hdk as witness
ElgAllocateOp(q, c) ==
    Cat(Cat(EmitInput(<< <<c.ct[1]>>, <<c.ct[2]>> >>), new_input_vec("elgamal", c.bid)),
        Emit(<< <<c.hdk>> >>, <<>>))

\* line 43, lines 73-91: efficient_exponentiation(c1, hdk)
ElgExponentiationOp(q, c) ==
    Cat(ToBitsGadget(q, c.hdk), LoopGadget("fp", q, c.ct[1], to_bits_le(q, c.hdk), 1))

\* a mutated inverse whose constraint is not enforced
ElgInverseUnchecked(q, c) == Emit(<< <<ElgInverseS(q, c)>> >>, <<Cst("inverse", TRUE)>>)
\* line 47: s.inverse(): the witness is the inverse (zero for zero) and the
\* constraint s * inverse = 1; it returns Ok for every value of s
ElgInverseOp(q, c) ==
    Emit(<< <<ElgInverseS(q, c)>> >>,
         <<Cst("inverse", (ElgS(q, c) * ElgInverseS(q, c)) % q = 1)>>)

\* line 48: m = c2 * inverse_s
ElgRecoverOp(q, c) == Emit(<< <<ElgM(q, c)>> >>, <<Cst("mul", TRUE)>>)

\* line 52, lines 95-112: field_to_bytes_optimized(m)
ElgToBytesOp(q, c) == ToBitsGadget(q, ElgM(q, c))

\* lines 56-60: the digest of the message bytes
ElgHashOp(q, c) == Sha256Gadget(ElgMBytes(q, c))

\* a mutated check that skips the last byte
ElgEqualityShort(q, c) ==
    EnforceBytesEqual(SubSeq(ElgHashBytes(q, c), 1, DigestLen - 1), c.bid)
\* line 64, lines 115-130: batch_equality_check(hash_bytes[..32], bid_var)
ElgEqualityOp(q, c) == EnforceBytesEqual(SubSeq(ElgHashBytes(q, c), 1, 32), c.bid)

\* the two assert_eq! of batch_equality_check
ElgLengthsOk(q, c) == Len(SubSeq(ElgHashBytes(q, c), 1, 32)) = 32 /\ Len(c.bid) = 32

ElgSteps == 7
ElgStep(q, c, k) ==
    CASE k = 1 -> ElgAllocateOp(q, c)
      [] k = 2 -> ElgExponentiationOp(q, c)
      [] k = 3 -> ElgInverseOp(q, c)
      [] k = 4 -> ElgRecoverOp(q, c)
      [] k = 5 -> ElgToBytesOp(q, c)
      [] k = 6 -> ElgHashOp(q, c)
      [] k = 7 -> ElgEqualityOp(q, c)

\* ---------------------------------------- shared by the two pairing circuits
\* PairingVar::pairing on discrete logarithms: e(g1^a, g2^b) = e(g1,g2)^(a*b)
pairing(q, a, b) == (a * b) % q

\* The bits padded to a byte boundary with
\* needed_padding = (8 - (field_size_bits % 8)) % 8 constant FALSE bits, then
\* chunks_exact(8) packed by UInt8::from_bits_le.
\* (a mutated padding without the outer modulo: a whole byte at a byte boundary)
needed_padding_unreduced(q) == 8 - (MODULUS_BIT_SIZE(q) % 8)
needed_padding(q) == (8 - (MODULUS_BIT_SIZE(q) % 8)) % 8
padded_bytes(q, bits) ==
    LET padded == bits \o Repeat(0, needed_padding(q))
    IN  [j \in 1..(Len(padded) \div 8) |-> ByteOf(padded, j)]

Enforce(name, ok) == Emit(<<>>, <<Cst(name, ok)>>)
\* EmulatedFpVar / G1Var / Fq12Var ::new_witness of a value
Witness(v) == Emit(<< <<v>> >>, <<Cst("alloc", TRUE)>>)
\* a non-constant pairing evaluation
PairingGadget(v) == Emit(<< <<v>> >>, <<Cst("pairing", TRUE)>>)

\* --------------------------------------- pairing-equality relation circuit
\* PairingCircuit { c_star_affine, beta, gamma, gamma_hash } (pairing-proof)
PairCircuit(c_star, beta, gamma, gamma_hash) ==
    [c_star_affine |-> c_star, beta |-> beta, gamma |-> gamma, gamma_hash |-> gamma_hash]

PairGammaBytes(q, c) == padded_bytes(q, to_bits_le(q, c.gamma))
PairShaHash(q, c) == Sha256(PairGammaBytes(q, c))
PairG2Gamma(q, c) == pow_le("g", q, 1, to_bits_le(q, c.gamma))
PairLeftSide(q, c) == pairing(q, c.c_star_affine, PairG2Gamma(q, c))
PairRightSide(q, c) == pow_le("gt", q, pairing(q, 1, 1), to_bits_le(q, c.beta))

\* lines 35-59: beta, gamma witnesses; C*, then gamma_hash public inputs; the
\* generators are constants
PairAllocateOp(q, c) ==
    Cat(Cat(Witness(c.beta), Witness(c.gamma)),
        Cat(EmitInput(<< <<c.c_star_affine>> >>), new_input_vec("pairing", c.gamma_hash)))
\* line 62
PairGammaBitsOp(q, c) == ToBitsGadget(q, c.gamma)
\* a mutated hash check that enforces nothing
PairHashUnchecked(q, c) == Sha256Gadget(PairGammaBytes(q, c))
\* lines 66-86: SHA256(gamma bytes) == gamma_hash
PairHashOp(q, c) ==
    Cat(Sha256Gadget(PairGammaBytes(q, c)), EnforceBytesEqual(PairShaHash(q, c), c.gamma_hash))
\* lines 89-94: g2^gamma, pairing(C*, g2^gamma)
PairLeftOp(q, c) ==
    Cat(LoopGadget("g", q, 1, to_bits_le(q, c.gamma), 1), PairingGadget(PairLeftSide(q, c)))
\* lines 98-101: pairing(g1, g2)^beta
PairRightOp(q, c) ==
    Cat(ToBitsGadget(q, c.beta), LoopGadget("gt", q, pairing(q, 1, 1), to_bits_le(q, c.beta), 1))
\* a mutated final check that enforces nothing
PairEnforceMissing(q, c) == Nothing
\* line 104: left_side.enforce_equal(&right_side)
PairEnforceOp(q, c) == Enforce("enforce_equal_fq12", PairLeftSide(q, c) = PairRightSide(q, c))

PairSteps == 6
PairStep(q, c, k) ==
    CASE k = 1 -> PairAllocateOp(q, c)
      [] k = 2 -> PairGammaBitsOp(q, c)
      [] k = 3 -> PairHashOp(q, c)
      [] k = 4 -> PairLeftOp(q, c)
      [] k = 5 -> PairRightOp(q, c)
      [] k = 6 -> PairEnforceOp(q, c)

\* ---------------------------------------------------- ABE relation circuit
\* PairingCircuit { s, k, bid, attr_hash_point, ct0..ct4, lambda, t, w, pk0,
\* pk1 } (abe-proof)
\* the constant g = Fr::from(2u64) of line 84
AbeG(q) == 2 % q

AbeKBytes(q, c) == padded_bytes(q, to_bits_le(q, c.k))
AbeHashK(q, c) == Sha256(AbeKBytes(q, c))
AbeBasePairing(q) == pairing(q, 1, 1)
AbeExpectedCt0(q, c) == pow_le("gt", q, AbeBasePairing(q), to_bits_le(q, (c.k + c.s) % q))
AbeEggLambda(q, c) == pow_le("gt", q, AbeBasePairing(q), to_bits_le(q, c.lambda))
AbeEggLambdaInv(q, c) == Fq12InverseOrZero(q, AbeEggLambda(q, c))
AbeC1Divided(q, c) == Fq12Mul(q, c.ct1, AbeEggLambdaInv(q, c))
AbePk0Raised(q, c) == pow_le("gt", q, c.pk0, to_bits_le(q, c.t))
AbeNegT(q, c) == (q - c.t) % q
AbeGNegT(q, c) == pow_le("g", q, 1, to_bits_le(q, AbeNegT(q, c)))
AbePk1ToT(q, c) == pow_le("fp", q, c.pk1, to_bits_le(q, c.t))
AbeGToW(q, c) == pow_le("fp", q, AbeG(q), to_bits_le(q, c.w))
AbeCt3Expected(q, c) == (AbePk1ToT(q, c) * AbeGToW(q, c)) % q
AbeAttrPowT(q, c) == pow_le("g", q, c.attr_hash_point, to_bits_le(q, c.t))
AbeLhs(q, c) == pairing(q, c.ct4, 1)
AbeRhs(q, c) == pairing(q, AbeAttrPowT(q, c), 1)

\* lines 50-61: the scalars and the five ciphertext components as witnesses
AbeAllocWitnessOp(q, c) ==
    LET vals == <<c.s, c.k, c.lambda, c.t, c.w, c.ct0, c.ct1, c.ct2, c.ct3, c.ct4>>
    IN  Emit([i \in 1..Len(vals) |-> <<vals[i]>>], Repeat(Cst("alloc", TRUE), Len(vals)))
\* lines 64-85: attr_hash_point, pk0, pk1, bid as public inputs in this
\* order; the generators, their pairing and g are constants
AbeAllocInputOp(q, c) ==
    Cat(EmitInput(<< <<c.attr_hash_point>>, <<c.pk0>>, <<c.pk1>> >>), new_input_vec("abe", c.bid))
\* lines 88-91
AbeBitsOp(q, c) ==
    Cat(Cat(ToBitsGadget(q, c.k), ToBitsGadget(q, c.t)),
        Cat(ToBitsGadget(q, c.lambda), ToBitsGadget(q, c.w)))
\* a mutated digest check that enforces nothing
AbeHashUnchecked(q, c) == Sha256Gadget(AbeKBytes(q, c))
\* lines 95-111: SHA256(k bytes) == bid
AbeHashOp(q, c) ==
    Cat(Sha256Gadget(AbeKBytes(q, c)), EnforceBytesEqual(AbeHashK(q, c), c.bid))
\* lines 115-122: ct0 == e(g,g)^(k+s)
AbeCt0Op(q, c) ==
    Cat(Cat(ToBitsGadget(q, (c.k + c.s) % q),
            LoopGadget("gt", q, AbeBasePairing(q), to_bits_le(q, (c.k + c.s) % q), 1)),
        Enforce("enforce_equal_fq12", c.ct0 = AbeExpectedCt0(q, c)))
\* lines 126-136: ct1 * (e(g,g)^lambda)^(-1) == pk0^t
AbeCt1Op(q, c) ==
    LET d1 == LoopGadget("gt", q, AbeBasePairing(q), to_bits_le(q, c.lambda), 1)
        d2 == Emit(<< <<AbeEggLambdaInv(q, c)>>, <<AbeC1Divided(q, c)>> >>,
                   <<Cst("inverse", Fq12Mul(q, AbeEggLambda(q, c), AbeEggLambdaInv(q, c)) = Fq12One),
                     Cst("mul", TRUE)>>)
        d3 == LoopGadget("gt", q, c.pk0, to_bits_le(q, c.t), 1)
    IN  Cat(Cat(d1, d2), Cat(d3, Enforce("enforce_equal_fq12", AbeC1Divided(q, c) = AbePk0Raised(q, c))))
\* a mutated ct2 check that compares with g1^t
AbeCt2Unnegated(q, c) ==
    Cat(Cat(ToBitsGadget(q, c.t), LoopGadget("g", q, 1, to_bits_le(q, c.t), 1)),
        Enforce("enforce_equal_g1", c.ct2 = pow_le("g", q, 1, to_bits_le(q, c.t))))
\* lines 140-144: ct2 == g1^(-t)
AbeCt2Op(q, c) ==
    Cat(Cat(ToBitsGadget(q, AbeNegT(q, c)), LoopGadget("g", q, 1, to_bits_le(q, AbeNegT(q, c)), 1)),
        Enforce("enforce_equal_g1", c.ct2 = AbeGNegT(q, c)))
\* lines 147-150: ct3 == pk1^t * g^w
AbeCt3Op(q, c) ==
    LET d1 == LoopGadget("fp", q, c.pk1, to_bits_le(q, c.t), 1)
        d2 == LoopGadget("fp", q, AbeG(q), to_bits_le(q, c.w), 1)
        d3 == Emit(<< <<AbeCt3Expected(q, c)>> >>, <<Cst("mul", TRUE)>>)
    IN  Cat(Cat(d1, d2), Cat(d3, Enforce("enforce_equal_fr", c.ct3 = AbeCt3Expected(q, c))))
\* lines 154-161: attr^t and the two pairings are computed; lhs and rhs are
\* not used after that and the function returns Ok(())
AbeCt4Op(q, c) ==
    Cat(LoopGadget("g", q, c.attr_hash_point, to_bits_le(q, c.t), 1),
        Cat(PairingGadget(AbeLhs(q, c)), PairingGadget(AbeRhs(q, c))))

AbeSteps == 9
AbeStep(q, c, k) ==
    CASE k = 1 -> AbeAllocWitnessOp(q, c)
      [] k = 2 -> AbeAllocInputOp(q, c)
      [] k = 3 -> AbeBitsOp(q, c)
      [] k = 4 -> AbeHashOp(q, c)
      [] k = 5 -> AbeCt0Op(q, c)
      [] k = 6 -> AbeCt1Op(q, c)
      [] k = 7 -> AbeCt2Op(q, c)
      [] k = 8 -> AbeCt3Op(q, c)
      [] k = 9 -> AbeCt4Op(q, c)

\* ---------------------------------------------------------------- synthesis
Steps(r) == CASE r = "elgamal" -> ElgSteps [] r = "abe" -> AbeSteps [] r = "pairing" -> PairSteps
Step(r, q, c, k) ==
    CASE r = "elgamal" -> ElgStep(q, c, k)
      [] r = "abe"     -> AbeStep(q, c, k)
      [] r = "pairing" -> PairStep(q, c, k)

\* generate_constraints run to its end on the constraint system it is given
RECURSIVE RunSteps(_, _, _, _, _)
RunSteps(r, q, c, cs, k) ==
    IF k > Steps(r) THEN cs ELSE RunSteps(r, q, c, Apply(cs, Step(r, q, c, k)), k + 1)
\* a mutated synthesis into a constraint system that is not fresh: it
\* already holds what the first statement allocates
SynthesizeOnUsedCs(r, q, c) == RunSteps(r, q, c, Apply(NewCs, Step(r, q, c, 1)), 1)
Synthesize(r, q, c) == RunSteps(r, q, c, NewCs, 1)

\* ------------------------------------------------- the encryption procedures
Scalars(q) == 0..(q - 1)

\* a mutated encryption that masks the message with c1 instead of hek^y
ElgEncryptUnkeyed(q, hdk, message, y) ==
    LET h2 == 2 % q
        c1 == compute_power(q, h2, y)
    IN  ElgCircuit(c1, (message * c1) % q, Sha256(bigint_to_bytes_le(q, message)), hdk)

\* setup_elgamal (elgamal main.rs lines 38-66) for the drawn hdk, message, y
ElgEncrypt(q, hdk, message, y) ==
    LET h2  == 2 % q
        hek == compute_power(q, h2, hdk)
        c1  == compute_power(q, h2, y)
        s   == compute_power(q, hek, y)
        c2  == (message * s) % q
    IN  ElgCircuit(c1, c2, Sha256(bigint_to_bytes_le(q, message)), hdk)
\* the decryption check of setup_elgamal (lines 53-55)
ElgDecrypts(q, c, message) ==
    LET decrypted_s == compute_power(q, c.ct[1], c.hdk)
    IN  decrypted_s # 0 /\ (c.ct[2] * FpInverseOrZero(q, decrypted_s)) % q = message

\* compute_block_id_hash_from_scalar (abe main.rs lines 25-31)
compute_block_id_hash_from_scalar(q, k) == Sha256(bigint_to_bytes_le(q, k))

\* the shared inputs of the ABE main (lines 49-70); every literal 3 but those
\* of k_scalar and t is kept, reduced into the scaled field
AbeEncrypt(q, k_scalar, t) ==
    LET three == 3 % q
        s == three  lambda == three  w == three  alpha == three  y == three
        attr_hash_point == (1 * three) % q
        pk0 == (AbeBasePairing(q) * alpha) % q
        pk1 == FieldPow(q, AbeG(q), y)
    IN  [s |-> s, k |-> k_scalar, bid |-> compute_block_id_hash_from_scalar(q, k_scalar),
         attr_hash_point |-> attr_hash_point,
         ct0 |-> (AbeBasePairing(q) * ((k_scalar + s) % q)) % q,
         ct1 |-> Fq12Mul(q, (AbeBasePairing(q) * lambda) % q, (pk0 * t) % q),
         ct2 |-> (1 * ((q - t) % q)) % q,
         ct3 |-> (FieldPow(q, pk1, t) * FieldPow(q, AbeG(q), w)) % q,
         ct4 |-> (attr_hash_point * t) % q,
         lambda |-> lambda, t |-> t, w |-> w, pk0 |-> pk0, pk1 |-> pk1]

\* resize(len, 0) of a byte vector
Resize(bytes, len) == [i \in 1..len |-> IF i <= Len(bytes) THEN bytes[i] ELSE 0]
\* compute_gamma_hash (pairing main.rs lines 19-25); the 32 of resize(32, 0)
\* is the byte length of a scalar and scales with the field
compute_gamma_hash(q, gamma) ==
    Sha256(Resize(bigint_to_bytes_le(q, gamma), CeilDiv8(MODULUS_BIT_SIZE(q))))

\* the witness values and C* of the pairing main (lines 47-65), gamma # 0
PairEncrypt(q, beta, gamma) ==
    LET gamma_inv == FpInverseOrZero(q, gamma)
        beta_over_gamma == (beta * gamma_inv) % q
    IN  PairCircuit((1 * beta_over_gamma) % q, beta, gamma, compute_gamma_hash(q, gamma))

\* ------------------------------------------------------------- the SNARK
\* Groth16 as the mains use it, idealised: setup fixes the shape of the
\* constraint system, prove synthesises the circuit with its assignment, and
\* verify accepts exactly a proof made from a satisfied system of that shape
\* whose public inputs are the ones presented.
Shape(syn) == <<num_constraints(syn), num_instance_variables(syn), num_witness_variables(syn)>>
circuit_specific_setup(r, q, c) == Shape(Synthesize(r, q, c))
prove(r, q, c) ==
    LET syn == Synthesize(r, q, c)
    IN  [shape |-> Shape(syn), sat |-> is_satisfied(syn), instance |-> syn.instance]
verify(vk, inputs, pf) == pf.shape = vk /\ pf.sat /\ inputs = Tail(pf.instance)

\* (a variant that forgets skip(1) and keeps the constant-one slot)
extract_public_inputs_unskipped(r, q, c) == Synthesize(r, q, c).instance
\* extract_public_inputs (elgamal main.rs lines 69-77): a synthesis of its
\* own, then instance_assignment.iter().skip(1)
extract_public_inputs(r, q, c) == Tail(Synthesize(r, q, c).instance)
\* fq_to_bw6fr: the little-endian bytes of an Fq element read back as an
\* element of BW6-761's scalar field, which is the same field: an entry (a
\* little-endian byte string below the modulus) is read back unchanged
fq_to_bw6fr(entry) == [i \in 1..Len(entry) |-> entry[i]]
\* abe main.rs lines 115-118, pairing main.rs lines 85-87
public_inputs_of(cs0) == [i \in 1..(Len(cs0.instance) - 1) |-> fq_to_bw6fr(cs0.instance[i + 1])]


\* ------------------------------------------------------------------- state
VARIABLES
    rel,               \* which binary runs: "elgamal", "abe" or "pairing"
    q,                 \* the modulus of its scalar field
    iter,              \* the benchmark iteration (i + 1)
    pc,                \* where the main is within the iteration
    circuit,           \* the circuit value built in this iteration
    corrupted,         \* the fields a caller overwrote, oldest first
    step,              \* statements of generate_constraints already run
    cs,                \* the constraint system of the first synthesis
    result,            \* what that generate_constraints returned
    constraint_counts, \* elgamal main: constraint_counts, variable_counts
    keys,              \* the verifying key of circuit_specific_setup
    proof,             \* the proof of prove
    public_inputs,     \* the vector handed to verify
    is_valid,          \* what verify returned
    fn,                \* a helper function evaluated on its own: its name
    input,             \* the arguments it is given
    output,            \* what it returned
    calls              \* synthesis calls in progress side by side

\* the variables of one benchmark main
main_vars == <<rel, q, iter, pc, circuit, corrupted, step, cs, result,
               constraint_counts, keys, proof, public_inputs, is_valid>>
\* the variables a benchmark main does not touch
aux == <<fn, input, output, calls>>
vars == <<rel, q, iter, pc, circuit, corrupted, step, cs, result,
          constraint_counts, keys, proof, public_inputs, is_valid,
          fn, input, output, calls>>

Relations == {"elgamal", "abe", "pairing"}
None == <<>>

Init ==
    /\ rel \in Relations
    /\ q \in Moduli
    /\ iter = 1
    /\ pc = "build"
    /\ circuit = None
    /\ corrupted = <<>>
    /\ step = 0
    /\ cs = NewCs
    /\ result = "none"
    /\ constraint_counts = <<>>
    /\ keys = None
    /\ proof = None
    /\ public_inputs = None
    /\ is_valid = "none"
    /\ fn = "none" /\ input = None /\ output = None /\ calls = None

\* elgamal main.rs lines 94-101: setup_elgamal draws hdk, message and the
\* nonce y; its assert_eq! panics when the decryption does not give the message
ElgBuild ==
    /\ pc = "build" /\ rel = "elgamal"
    /\ \E hdk \in Scalars(q), message \in Scalars(q), y \in Scalars(q) :
        LET c == ElgEncrypt(q, hdk, message, y)
        IN  /\ circuit' = c
            /\ pc' = IF ElgDecrypts(q, c, message) THEN "built" ELSE "panic"
    /\ UNCHANGED <<rel, q, iter, corrupted, step, cs, result, constraint_counts,
                   keys, proof, public_inputs, is_valid>>
    /\ UNCHANGED aux

\* abe main.rs lines 49-92
AbeBuild ==
    /\ pc = "build" /\ rel = "abe"
    /\ \E k_scalar \in Scalars(q), t \in Scalars(q) : circuit' = AbeEncrypt(q, k_scalar, t)
    /\ pc' = "built"
    /\ UNCHANGED <<rel, q, iter, corrupted, step, cs, result, constraint_counts,
                   keys, proof, public_inputs, is_valid>>
    /\ UNCHANGED aux

\* pairing main.rs lines 47-65 (gamma.inverse().unwrap() needs gamma # 0)
PairBuild ==
    /\ pc = "build" /\ rel = "pairing"
    /\ \E beta \in Scalars(q), gamma \in Scalars(q) \ {0} : circuit' = PairEncrypt(q, beta, gamma)
    /\ pc' = "built"
    /\ UNCHANGED <<rel, q, iter, corrupted, step, cs, result, constraint_counts,
                   keys, proof, public_inputs, is_valid>>
    /\ UNCHANGED aux

\* The fields of a circuit value and the values each may hold.
ScalarFields(r) ==
    CASE r = "elgamal" -> {"hdk"}
      [] r = "abe"     -> {"s", "k", "lambda", "t", "w", "ct3", "pk1"}
      [] r = "pairing" -> {"beta", "gamma"}
GroupFields(r) ==
    CASE r = "elgamal" -> {}
      [] r = "abe"     -> {"attr_hash_point", "ct2", "ct4"}
      [] r = "pairing" -> {"c_star_affine"}
Fq12Fields(r) == IF r = "abe" THEN {"ct0", "ct1", "pk0"} ELSE {}
DigestField(r) == IF r = "pairing" THEN "gamma_hash" ELSE "bid"

\* x with bit i (from 0) flipped
FlipBit(x, i) == IF (x \div Pow2(i)) % 2 = 1 THEN x - Pow2(i) ELSE x + Pow2(i)
OneBitApart(x, y) == \E i \in 0..7 : y = FlipBit(x, i)
FlipDigestBit(d, j, i) == [d EXCEPT ![j] = FlipBit(@, i)]

\* A caller other than the main hands generate_constraints a circuit value that
\* differs from an honestly built one in one field (a wrong witness, a
\* tampered ciphertext component or digest).  corrupted records the field and
\* whether the change is a single flipped bit (any change of a group or Fq12
\* element counts as one).
CorruptScalar ==
    /\ pc = "built" /\ Len(corrupted) < MaxCorrupt /\ rel # "elgamal"
    /\ \E f \in ScalarFields(rel), v \in Scalars(q) :
        /\ v # circuit[f]
        /\ circuit' = [circuit EXCEPT ![f] = v]
        /\ corrupted' = Append(corrupted, [field |-> f, bit |-> OneBitApart(circuit[f], v)])
    /\ UNCHANGED <<rel, q, iter, pc, step, cs, result, constraint_counts,
                   keys, proof, public_inputs, is_valid>>
    /\ UNCHANGED aux

CorruptElement ==
    /\ pc = "built" /\ Len(corrupted) < MaxCorrupt /\ rel # "elgamal"
    /\ \E f \in GroupFields(rel) \cup Fq12Fields(rel) :
       \E v \in Scalars(q) \cup (IF f \in Fq12Fields(rel) THEN {Fq12Zero} ELSE {}) :
        /\ v # circuit[f]
        /\ circuit' = [circuit EXCEPT ![f] = v]
        /\ corrupted' = Append(corrupted, [field |-> f, bit |-> TRUE])
    /\ UNCHANGED <<rel, q, iter, pc, step, cs, result, constraint_counts,
                   keys, proof, public_inputs, is_valid>>
    /\ UNCHANGED aux

\* the ElGamal circuit keeps c1, c2 in the array ct and hdk beside it
CorruptElGamal ==
    /\ pc = "built" /\ Len(corrupted) < MaxCorrupt /\ rel = "elgamal"
    /\ \E f \in {"c1", "c2", "hdk"}, v \in Scalars(q) :
        LET old == CASE f = "c1" -> circuit.ct[1] [] f = "c2" -> circuit.ct[2] [] f = "hdk" -> circuit.hdk
        IN  /\ v # old
            /\ circuit' = CASE f = "c1"  -> [circuit EXCEPT !.ct[1] = v]
                            [] f = "c2"  -> [circuit EXCEPT !.ct[2] = v]
                            [] f = "hdk" -> [circuit EXCEPT !.hdk = v]
            /\ corrupted' = Append(corrupted, [field |-> f, bit |-> OneBitApart(old, v)])
    /\ UNCHANGED <<rel, q, iter, pc, step, cs, result, constraint_counts,
                   keys, proof, public_inputs, is_valid>>
    /\ UNCHANGED aux

\* one bit of the digest flipped (in its first or its last byte), or the
\* digest of another scalar put in its place
DigestBytePositions == {1, DigestLen}
CorruptDigest ==
    /\ pc = "built" /\ Len(corrupted) < MaxCorrupt
    /\ \/ \E j \in DigestBytePositions, i \in {0, 7} :
            /\ circuit' = [circuit EXCEPT ![DigestField(rel)] = FlipDigestBit(@, j, i)]
            /\ corrupted' = Append(corrupted, [field |-> DigestField(rel), bit |-> TRUE])
       \/ \E x \in Scalars(q) :
            /\ Sha256(bigint_to_bytes_le(q, x)) # circuit[DigestField(rel)]
            /\ circuit' = [circuit EXCEPT ![DigestField(rel)] = Sha256(bigint_to_bytes_le(q, x))]
            /\ corrupted' = Append(corrupted, [field |-> DigestField(rel), bit |-> FALSE])
    /\ UNCHANGED <<rel, q, iter, pc, step, cs, result, constraint_counts,
                   keys, proof, public_inputs, is_valid>>
    /\ UNCHANGED aux

\* ConstraintSystem::new_ref() and the call of generate_constraints
\* (elgamal main.rs 104-105, abe main.rs 95-96, pairing main.rs 68-69)
StartSynthesis ==
    /\ pc = "built"
    /\ pc' = "synth" /\ cs' = NewCs /\ step' = 0 /\ result' = "none"
    /\ UNCHANGED <<rel, q, iter, circuit, corrupted, constraint_counts,
                   keys, proof, public_inputs, is_valid>>
    /\ UNCHANGED aux

\* whether statement k of generate_constraints panics: only the two
\* assert_eq! of batch_equality_check can
StepPanics(r, m, c, k) == r = "elgamal" /\ k = ElgSteps /\ ~ElgLengthsOk(m, c)

\* the next statement of generate_constraints; after the last it returns
\* Ok(()) (no statement of the three circuits returns Err on an assignment)
GenerateConstraintsStep ==
    /\ pc = "synth" /\ step < Steps(rel)
    /\ IF StepPanics(rel, q, circuit, step + 1)
       THEN pc' = "panic" /\ UNCHANGED <<cs, step, result>>
       ELSE /\ cs' = Apply(cs, Step(rel, q, circuit, step + 1))
            /\ step' = step + 1
            /\ result' = IF step + 1 = Steps(rel) THEN "Ok" ELSE "none"
            /\ pc' = IF step + 1 = Steps(rel) THEN "synthesized" ELSE "synth"
    /\ UNCHANGED <<rel, q, iter, circuit, corrupted, constraint_counts,
                   keys, proof, public_inputs, is_valid>>
    /\ UNCHANGED aux

\* elgamal main.rs lines 105-107: unwrap, then the counts are recorded; the
\* system is not asked whether it is satisfied
ElgRecordStats ==
    /\ pc = "synthesized" /\ rel = "elgamal"
    /\ constraint_counts' = Append(constraint_counts,
                                   <<num_constraints(cs), num_witness_variables(cs)>>)
    /\ pc' = IF result = "Ok" THEN "setup" ELSE "panic"
    /\ UNCHANGED <<rel, q, iter, circuit, corrupted, step, cs, result,
                   keys, proof, public_inputs, is_valid>>
    /\ UNCHANGED aux

\* abe main.rs lines 96-100 (unwrap, then panic! unless is_satisfied) and
\* pairing main.rs lines 69-70 (unwrap, then assert!(is_satisfied))
CheckSatisfied ==
    /\ pc = "synthesized" /\ rel \in {"abe", "pairing"}
    /\ pc' = IF result = "Ok" /\ is_satisfied(cs) THEN "setup" ELSE "panic"
    /\ UNCHANGED <<rel, q, iter, circuit, corrupted, step, cs, result,
                   constraint_counts, keys, proof, public_inputs, is_valid>>
    /\ UNCHANGED aux

\* Groth16::circuit_specific_setup(circuit.clone(), rng)
Setup ==
    /\ pc = "setup"
    /\ keys' = circuit_specific_setup(rel, q, circuit)
    /\ pc' = "prove"
    /\ UNCHANGED <<rel, q, iter, circuit, corrupted, step, cs, result,
                   constraint_counts, proof, public_inputs, is_valid>>
    /\ UNCHANGED aux

\* Groth16::prove(&pk, circuit.clone(), rng)
Prove ==
    /\ pc = "prove"
    /\ proof' = prove(rel, q, circuit)
    /\ pc' = "inputs"
    /\ UNCHANGED <<rel, q, iter, circuit, corrupted, step, cs, result,
                   constraint_counts, keys, public_inputs, is_valid>>
    /\ UNCHANGED aux

\* elgamal main.rs line 124: extract_public_inputs(&circuit).unwrap();
\* abe main.rs 115-118 and pairing main.rs 85-87: from the first synthesis
PublicInputs ==
    /\ pc = "inputs"
    /\ public_inputs' = IF rel = "elgamal" THEN extract_public_inputs(rel, q, circuit)
                        ELSE public_inputs_of(cs)
    /\ pc' = "verify"
    /\ UNCHANGED <<rel, q, iter, circuit, corrupted, step, cs, result,
                   constraint_counts, keys, proof, is_valid>>
    /\ UNCHANGED aux

\* Groth16::verify(&vk, &public_inputs, &proof), then assert!(is_valid) in
\* the elgamal and pairing mains; the abe main prints the outcome
Verify ==
    /\ pc = "verify"
    /\ LET v == verify(keys, public_inputs, proof)
       IN  /\ is_valid' = v
           /\ pc' = IF v \/ rel = "abe" THEN "iterdone" ELSE "panic"
    /\ UNCHANGED <<rel, q, iter, circuit, corrupted, step, cs, result,
                   constraint_counts, keys, proof, public_inputs>>
    /\ UNCHANGED aux

\* the end of the loop body: the iteration's values go out of scope
NextIteration ==
    /\ pc = "iterdone"
    /\ IF iter < MaxIter
       THEN /\ iter' = iter + 1 /\ pc' = "build"
            /\ circuit' = None /\ corrupted' = <<>> /\ step' = 0 /\ cs' = NewCs
            /\ result' = "none" /\ keys' = None /\ proof' = None
            /\ public_inputs' = None /\ is_valid' = "none"
       ELSE /\ pc' = "done"
            /\ UNCHANGED <<iter, circuit, corrupted, step, cs, result, keys, proof,
                           public_inputs, is_valid>>
    /\ UNCHANGED <<rel, q, constraint_counts>>
    /\ UNCHANGED aux

Next ==
    \/ ElgBuild \/ AbeBuild \/ PairBuild
    \/ CorruptScalar \/ CorruptElement \/ CorruptElGamal \/ CorruptDigest
    \/ StartSynthesis \/ GenerateConstraintsStep
    \/ ElgRecordStats \/ CheckSatisfied
    \/ Setup \/ Prove \/ PublicInputs \/ Verify \/ NextIteration

Spec == Init /\ [][Next]_vars


\* ------------------------------------------ helper functions on their own
\* The helper functions of the three crates called directly, as the unit tests
\* of elgamal circuit.rs do, over fields larger than a benchmark run explores.
\* Largest modulus for the exponentiation and the ElGamal round trip.
MaxFnModulus == 13
\* Largest modulus for the byte conversions (above 255: two bytes).
MaxByteModulus == 257
\* Largest bit length for the bit packing.
MaxBits == 10

FnModuli == {n \in 3..MaxFnModulus : IsPrime(n)}
ByteModuli == Moduli \cup {n \in (MaxByteModulus - 8)..MaxByteModulus : IsPrime(n)}
\* all bit sequences of length n
BitSeqs(n) == [1..n -> {0, 1}]

\* A circuit that hashes the scalar x, the rest built as the relation's main
\* does: x is the ElGamal message, the ABE k, the pairing-equality gamma.
HashingCircuit(r, m, x) ==
    CASE r = "elgamal" -> ElgEncrypt(m, 2 % m, x, 3 % m)
      [] r = "abe"     -> AbeEncrypt(m, x, 3 % m)
      [] r = "pairing" -> PairEncrypt(m, IF x = 0 THEN 0 ELSE 3 % m, x)
\* the bytes the circuit feeds to Sha256Gadget::evaluate
CircuitHashInput(r, m, c) ==
    CASE r = "elgamal" -> ElgMBytes(m, c)
      [] r = "abe"     -> AbeKBytes(m, c)
      [] r = "pairing" -> PairGammaBytes(m, c)
\* the digest the circuit computes
CircuitDigest(r, m, c) ==
    CASE r = "elgamal" -> SubSeq(ElgHashBytes(m, c), 1, 32)
      [] r = "abe"     -> AbeHashK(m, c)
      [] r = "pairing" -> PairShaHash(m, c)
\* the bytes the caller hashes: to_bytes_le (elgamal main.rs 59, abe main.rs
\* 27), and resize(32, 0) after it in pairing main.rs 20-21
CallerHashInput(r, m, x) ==
    IF r = "pairing" THEN Resize(bigint_to_bytes_le(m, x), CeilDiv8(MODULUS_BIT_SIZE(m)))
    ELSE bigint_to_bytes_le(m, x)
\* the digest the caller puts into the circuit
CallerDigest(r, c) == IF r = "pairing" THEN c.gamma_hash ELSE c.bid

\* test_circuit_correctness (elgamal circuit.rs lines 147-163): the same
\* encryption and decryption with Field::pow
TestEncryptDecrypt(m, hdk, message, r) ==
    LET generator == 2 % m
        c1 == FieldPow(m, generator, r)
        h  == FieldPow(m, generator, hdk)
        c2 == (message * FieldPow(m, h, r)) % m
        s  == FieldPow(m, c1, hdk)
    IN  [c1 |-> c1, c2 |-> c2, s |-> s, decrypted |-> (c2 * FpInverseOrZero(m, s)) % m]

FnInit ==
    /\ \/ /\ fn = "hash_bytes" /\ rel \in Relations /\ q \in ByteModuli
          /\ input \in [x : Scalars(q)]
       \/ /\ fn = "pack_bits" /\ rel = "elgamal"
          /\ \E n \in 0..MaxBits : q = Pow2(n) - 1 /\ input \in [bits : BitSeqs(n)]
       \/ /\ fn = "power" /\ rel = "elgamal" /\ q \in FnModuli
          /\ input \in [base : Scalars(q), exp : Scalars(q)]
       \/ /\ fn = "setup_elgamal" /\ rel = "elgamal" /\ q \in FnModuli
          /\ input \in [hdk : Scalars(q), message : Scalars(q), y : Scalars(q)]
    /\ output = None /\ pc = "call" /\ calls = None
    /\ iter = 1 /\ circuit = None /\ corrupted = <<>> /\ step = 0 /\ cs = NewCs
    /\ result = "none" /\ constraint_counts = <<>> /\ keys = None /\ proof = None
    /\ public_inputs = None /\ is_valid = "none"

\* the frame of a helper call
FnFrame == UNCHANGED <<rel, q, iter, circuit, corrupted, step, cs, result,
                       constraint_counts, keys, proof, public_inputs, is_valid,
                       fn, input, calls>>

\* the scalar x hashed in the circuit and by the caller
HashBytes ==
    /\ fn = "hash_bytes" /\ pc = "call"
    /\ LET c == HashingCircuit(rel, q, input.x)
       IN  output' = [circuit_bytes  |-> CircuitHashInput(rel, q, c),
                      caller_bytes   |-> CallerHashInput(rel, q, input.x),
                      circuit_digest |-> CircuitDigest(rel, q, c),
                      caller_digest  |-> CallerDigest(rel, c),
                      satisfied      |-> is_satisfied(Synthesize(rel, q, c))]
    /\ pc' = "returned" /\ FnFrame

\* the two packings of a bit sequence: chunks(8) with the last chunk
\* zero-filled (elgamal), padding then chunks_exact(8) (abe, pairing)
PackBits ==
    /\ fn = "pack_bits" /\ pc = "call"
    /\ output' = [padding      |-> needed_padding(q),
                  chunks       |-> field_to_bytes_optimized(input.bits),
                  chunks_exact |-> padded_bytes(q, input.bits)]
    /\ pc' = "returned" /\ FnFrame

\* base^exp in the circuit and out of it
Power ==
    /\ fn = "power" /\ pc = "call"
    /\ output' = [in_circuit     |-> efficient_exponentiation(q, input.base, input.exp),
                  out_of_circuit |-> compute_power(q, input.base, input.exp)]
    /\ pc' = "returned" /\ FnFrame

\* setup_elgamal up to its assertion, and the same in the unit test
SetupElGamal ==
    /\ fn = "setup_elgamal" /\ pc = "call"
    /\ LET c == ElgEncrypt(q, input.hdk, input.message, input.y)
           decrypted_s == compute_power(q, c.ct[1], c.hdk)
       IN  output' = [c |-> c,
                      decrypted_s |-> decrypted_s,
                      decrypted_message |-> (c.ct[2] * FpInverseOrZero(q, decrypted_s)) % q,
                      asserted |-> ElgDecrypts(q, c, input.message),
                      test |-> TestEncryptDecrypt(q, input.hdk, input.message, input.y)]
    /\ pc' = "returned" /\ FnFrame

FnNext == HashBytes \/ PackBits \/ Power \/ SetupElGamal

FnSpec == FnInit /\ [][FnNext]_vars


\* ------------------------------------------- two synthesis calls in flight
\* Two calls of generate_constraints of independent proofs, as the mains
\* make them: each on a clone of its circuit value and on the constraint
\* system it created with ConstraintSystem::new_ref().  calls[i] holds the
\* circuit value, the statements already run and the system of call i.
CallIds == {1, 2}
MaxIsoModulus == 3
IsoModuli == {n \in Moduli : n <= MaxIsoModulus}
\* the circuit values the encryption procedure of the main can build
BuiltCircuits(r, m) ==
    CASE r = "elgamal" -> {ElgEncrypt(m, hdk, message, y) :
                              hdk \in Scalars(m), message \in Scalars(m), y \in Scalars(m)}
      [] r = "abe"     -> {AbeEncrypt(m, k_scalar, t) : k_scalar \in Scalars(m), t \in Scalars(m)}
      [] r = "pairing" -> {PairEncrypt(m, beta, gamma) :
                              beta \in Scalars(m), gamma \in Scalars(m) \ {0}}

IsoInit ==
    /\ rel \in Relations /\ q \in IsoModuli
    /\ fn = "generate_constraints" /\ input = None /\ output = None /\ pc = "call"
    /\ \E c1 \in BuiltCircuits(rel, q), c2 \in BuiltCircuits(rel, q) :
          calls = [i \in CallIds |->
                      [circuit |-> IF i = 1 THEN c1 ELSE c2, step |-> 0, cs |-> NewCs]]
    /\ iter = 1 /\ circuit = None /\ corrupted = <<>> /\ step = 0 /\ cs = NewCs
    /\ result = "none" /\ constraint_counts = <<>> /\ keys = None /\ proof = None
    /\ public_inputs = None /\ is_valid = "none"

\* a mutated statement whose gadgets write into one system shared by the calls
StepIntoShared(cl, i, d) ==
    [j \in DOMAIN cl |-> [cl[j] EXCEPT !.cs = Apply(@, d),
                                       !.step = IF j = i THEN @ + 1 ELSE @]]
\* what a statement of call i does to the calls: its gadgets are handed
\* cs.clone(), a reference to the system of call i, and write there only
StepInto(cl, i, d) == [cl EXCEPT ![i].cs = Apply(@, d), ![i].step = @ + 1]

\* one statement of generate_constraints of call i
CallStep(i) ==
    /\ fn = "generate_constraints"
    /\ calls[i].step < Steps(rel)
    /\ ~StepPanics(rel, q, calls[i].circuit, calls[i].step + 1)
    /\ calls' = StepInto(calls, i, Step(rel, q, calls[i].circuit, calls[i].step + 1))
    /\ UNCHANGED <<rel, q, iter, pc, circuit, corrupted, step, cs, result,
                   constraint_counts, keys, proof, public_inputs, is_valid,
                   fn, input, output>>

\* either call takes its next statement
IsoNext == \E i \in CallIds : CallStep(i)

IsoSpec == IsoInit /\ [][IsoNext]_vars


\* ================================================================== claims
\* Mathematical readings the claims are stated in (no loop over bits).
\* a^e in the target group / Fq12, e read as an integer
Fq12PowMath(m, a, e) == IF a < 0 THEN (IF e = 0 THEN Fq12One ELSE Fq12Zero) ELSE (a * e) % m
\* the inverse of a non-zero field element
FpInverseMath(m, x) == CHOOSE y \in 0..(m - 1) : (x * y) % m = 1
\* SHA256 of the little-endian bytes of a scalar
DigestOf(m, x) == Sha256(bigint_to_bytes_le(m, x))
Synthesized == pc = "synthesized"
Honest == Len(corrupted) = 0

\* C1: ABE check (6): whenever pairing(ct4, g2) differs from
\* pairing(attr_hash_point^t, g2), the constraint system generate_constraints
\* produced is not satisfied.  (Stated as claimed; the code enforces nothing
\* on ct4.)
C1_Ct4MismatchUnsatisfied ==
    (rel = "abe" /\ Synthesized
       /\ pairing(q, circuit.ct4, 1) # pairing(q, (circuit.attr_hash_point * circuit.t) % q, 1))
    => ~is_satisfied(cs)

\* C2: ElGamal relation: the constraint system is satisfied if and only if
\* s = c1^hdk is non-zero and SHA256(le-bytes(c2 * s^(-1))) equals bid.
C2_ElGamalRelation ==
    (rel = "elgamal" /\ Synthesized) =>
        LET s == FieldPow(q, circuit.ct[1], circuit.hdk)
        IN  is_satisfied(cs) <=>
              (s # 0 /\ DigestOf(q, (circuit.ct[2] * FpInverseMath(q, s)) % q) = circuit.bid)
\* C2 witness: a wrong witness hdk on an honest ciphertext, s non-zero, and
\* the synthesised system is not satisfied
C2_Witness ==
    /\ rel = "elgamal" /\ Synthesized /\ ~is_satisfied(cs)
    /\ Len(corrupted) = 1 /\ corrupted[1].field = "hdk"
    /\ FieldPow(q, circuit.ct[1], circuit.hdk) # 0

\* C3: pairing-equality relation: the constraint system is satisfied if and
\* only if gamma_hash = SHA256(bytes(gamma)) and
\* pairing(C*, g2^gamma) = pairing(g1, g2)^beta.
C3_PairingRelation ==
    (rel = "pairing" /\ Synthesized) =>
        (is_satisfied(cs) <=>
            (/\ circuit.gamma_hash = DigestOf(q, circuit.gamma)
             /\ pairing(q, circuit.c_star_affine, circuit.gamma) = Fq12PowMath(q, pairing(q, 1, 1), circuit.beta)))
\* C3 witness: beta changed with C* kept, and the system is not satisfied
C3_Witness ==
    /\ rel = "pairing" /\ Synthesized /\ ~is_satisfied(cs)
    /\ Len(corrupted) = 1 /\ corrupted[1].field = "beta"

\* C4: ABE checks (1)-(5): a satisfied constraint system implies each of
\* bid = SHA256(bytes(k)); ct0 = e(g1,g2)^(k+s);
\* ct1 * (e(g1,g2)^lambda)^(-1) = pk0^t; ct2 = g1^(-t); ct3 = pk1^t * 2^w.
AbeCheck1(m, c) == c.bid = DigestOf(m, c.k)
AbeCheck2(m, c) == c.ct0 = Fq12PowMath(m, pairing(m, 1, 1), (c.k + c.s) % m)
AbeCheck3(m, c) ==
    Fq12Mul(m, c.ct1, (m - Fq12PowMath(m, pairing(m, 1, 1), c.lambda)) % m) = Fq12PowMath(m, c.pk0, c.t)
AbeCheck4(m, c) == c.ct2 = (m - c.t) % m
AbeCheck5(m, c) == c.ct3 = (FieldPow(m, c.pk1, c.t) * FieldPow(m, 2 % m, c.w)) % m
C4_AbeChecksEnforced ==
    (rel = "abe" /\ Synthesized /\ is_satisfied(cs)) =>
        (/\ AbeCheck1(q, circuit) /\ AbeCheck2(q, circuit) /\ AbeCheck3(q, circuit)
         /\ AbeCheck4(q, circuit) /\ AbeCheck5(q, circuit))
\* C4 witness: ct2 differs from g1^(-t), everything else as encrypted, and
\* the system is not satisfied
C4_Witness ==
    /\ rel = "abe" /\ Synthesized /\ ~is_satisfied(cs)
    /\ ~AbeCheck4(q, circuit)
    /\ AbeCheck1(q, circuit) /\ AbeCheck2(q, circuit) /\ AbeCheck3(q, circuit) /\ AbeCheck5(q, circuit)

\* C5: ElGamal inversion of zero: with c1 = 0 and hdk # 0 (so s = 0) the
\* synthesis reports the DegenerateWitness error.  (Stated as claimed; the
\* code returns Ok with an unsatisfied system.)
C5_InverseOfZeroReported ==
    (rel = "elgamal" /\ Synthesized /\ circuit.ct[1] = 0 /\ circuit.hdk # 0)
    => result = "DegenerateWitness"

\* C6: zero witness scalar: with hdk = 0 (ElGamal) or gamma = 0
\* (pairing-equality) the synthesis reports DegenerateWitness and does not end
\* with a satisfied system.  (Stated as claimed.)
C6_ZeroScalarReported ==
    (Synthesized /\ (\/ (rel = "elgamal" /\ circuit.hdk = 0)
                     \/ (rel = "pairing" /\ circuit.gamma = 0)))
    => (result = "DegenerateWitness" /\ ~is_satisfied(cs))

\* C7: value independence: the constraints (their number and the gadgets
\* that emit them, in order), the number of witness variables and the number
\* of public variables of a finished synthesis are those of the synthesis of
\* the all-zero circuit of the same relation, whatever the values are.
ZeroDigest == Repeat(0, DigestLen)
ZeroCircuit(r) ==
    CASE r = "elgamal" -> ElgCircuit(0, 0, ZeroDigest, 0)
      [] r = "pairing" -> PairCircuit(0, 0, 0, ZeroDigest)
      [] r = "abe"     -> [s |-> 0, k |-> 0, bid |-> ZeroDigest, attr_hash_point |-> 0,
                           ct0 |-> 0, ct1 |-> 0, ct2 |-> 0, ct3 |-> 0, ct4 |-> 0,
                           lambda |-> 0, t |-> 0, w |-> 0, pk0 |-> 0, pk1 |-> 0]
Gadgets(syn) == [i \in 1..Len(syn.constraints) |-> syn.constraints[i].gadget]
C7_ValueIndependence ==
    Synthesized =>
        LET ref == Synthesize(rel, q, ZeroCircuit(rel))
        IN  Shape(cs) = Shape(ref) /\ Gadgets(cs) = Gadgets(ref)
\* C7 witness: an ElGamal synthesis whose exponent has a set and a clear bit
C7_Witness ==
    rel = "elgamal" /\ Synthesized /\ circuit.hdk = 1 /\ circuit.ct[1] > 1

\* C8: public input order: the vector handed to verify is the instance
\* assignment of a synthesis of the proved circuit without its first slot
\* (the constant one), and lists (c1, c2, bid) for ElGamal,
\* (attr_hash_point, pk0, pk1, bid) for ABE, (C*, gamma_hash) for
\* pairing-equality, in every iteration.
AllocationOrder(r, c) ==
    CASE r = "elgamal" -> << <<c.ct[1]>>, <<c.ct[2]>> >> \o Chunks(c.bid, MaxInputBytes(r))
      [] r = "abe"     -> << <<c.attr_hash_point>>, <<c.pk0>>, <<c.pk1>> >> \o Chunks(c.bid, MaxInputBytes(r))
      [] r = "pairing" -> << <<c.c_star_affine>> >> \o Chunks(c.gamma_hash, MaxInputBytes(r))
C8_PublicInputOrder ==
    (pc = "verify") =>
        /\ proof.instance[1] = One
        /\ public_inputs = Tail(proof.instance)
        /\ public_inputs = AllocationOrder(rel, circuit)
        /\ cs.instance = <<One>> \o AllocationOrder(rel, circuit)
\* C8 witness: the second iteration of the ABE main reaches verify
C8_Witness == pc = "verify" /\ rel = "abe" /\ iter = 2 /\ circuit.attr_hash_point # circuit.pk1

\* C9: completeness: for a circuit built by the encryption procedure of its
\* main, the synthesised system is satisfied, nothing panics, and verify
\* returns true.
C9_Completeness ==
    Honest =>
        /\ pc # "panic"
        /\ Synthesized => (result = "Ok" /\ is_satisfied(cs))
        /\ pc \in {"iterdone", "done"} => is_valid = TRUE
\* C9 witness: an honest ElGamal iteration with a non-trivial key, message and
\* ciphertext verified
C9_Witness ==
    /\ Honest /\ rel = "elgamal" /\ pc = "iterdone" /\ is_valid = TRUE
    /\ circuit.hdk > 1 /\ circuit.ct[1] > 1 /\ circuit.ct[2] > 1

\* C10: negative-path soundness: one flipped bit of one ciphertext component
\* or of the digest of a valid tuple gives an unsatisfied system.  (Stated as
\* claimed.)
CiphertextFields(r) ==
    CASE r = "elgamal" -> {"c1", "c2", "bid"}
      [] r = "abe"     -> {"ct0", "ct1", "ct2", "ct3", "ct4", "bid"}
      [] r = "pairing" -> {"c_star_affine", "gamma_hash"}
C10_SingleBitCorruptionUnsatisfied ==
    (Synthesized /\ Len(corrupted) = 1 /\ corrupted[1].bit
       /\ corrupted[1].field \in CiphertextFields(rel))
    => ~is_satisfied(cs)


Returned(f) == fn = f /\ pc = "returned"
\* byte j (from 1) of the little-endian encoding of the integer x
LeByte(x, j) == (x \div Pow2(8 * (j - 1))) % 256

\* C11: hash round trip: for every field value x (0, 1 and modulus-1
\* included) the bytes the circuit feeds to SHA-256 are the little-endian
\* bytes of x, the same bytes the caller hashes, so the two digests agree and
\* the circuit built for x is satisfied.
C11_HashRoundTrip ==
    Returned("hash_bytes") =>
        /\ Len(output.circuit_bytes) = CeilDiv8(MODULUS_BIT_SIZE(q))
        /\ \A j \in 1..Len(output.circuit_bytes) : output.circuit_bytes[j] = LeByte(input.x, j)
        /\ output.circuit_bytes = output.caller_bytes
        /\ output.circuit_digest = output.caller_digest
        /\ Len(output.circuit_digest) = DigestLen
        /\ output.satisfied
\* C11 witness: the boundary value modulus-1 of a two-byte field, hashed by
\* the ElGamal circuit
C11_Witness ==
    Returned("hash_bytes") /\ rel = "elgamal" /\ q > 256 /\ input.x = q - 1
        /\ output.circuit_bytes[2] = 1


\* C12: bit padding and packing: for every bit length n, (8 - n mod 8) mod 8
\* padding bits bring the length to a multiple of 8, chunks_exact(8) then
\* drops no bit and yields ceil(n/8) bytes, and the ElGamal packing
\* (chunks(8), last chunk zero-filled) yields the same bytes.
C12_PaddingAndPacking ==
    Returned("pack_bits") =>
        LET n == Len(input.bits)
        IN  /\ output.padding = (8 - (n % 8)) % 8
            /\ (n + output.padding) % 8 = 0
            /\ Len(output.chunks_exact) = CeilDiv8(n)
            /\ \A k \in 1..n :
                 (output.chunks_exact[((k - 1) \div 8) + 1] \div Pow2((k - 1) % 8)) % 2 = input.bits[k]
            /\ output.chunks = output.chunks_exact
\* C12 witness: ten bits with the tenth set: six padding bits, two bytes
C12_Witness ==
    Returned("pack_bits") /\ Len(input.bits) = 10 /\ input.bits[10] = 1 /\ input.bits[1] = 1
        /\ output.padding = 6 /\ Len(output.chunks_exact) = 2 /\ output.chunks_exact[2] >= 2


\* C13: harness ordering: in every iteration of each main the steps come in
\* the order synthesize, check local satisfiability, setup, prove, verify,
\* and setup is entered only by a satisfiability check of that iteration's
\* constraint system that returned true.  (Stated as claimed; the ElGamal
\* main has no such check.)
C13_HarnessOrdering ==
    [][/\ (pc' = "setup" /\ pc # "setup") =>
             (pc = "synthesized" /\ CheckSatisfied /\ is_satisfied(cs))
       /\ (pc' = "prove" /\ pc # "prove") => pc = "setup"
       /\ (pc' = "inputs" /\ pc # "inputs") => pc = "prove"
       /\ (pc' = "verify" /\ pc # "verify") => pc = "inputs"]_vars


\* C14: no crash on a wrong witness: for every witness and public input
\* generate_constraints returns without panicking, and a main handed a wrong
\* witness reports the outcome instead of ending the process by a panic.
\* (Stated as claimed; the mains panic on an unsatisfied system or a failed
\* verification.)
C14_NoCrashOnWrongWitness == pc # "panic"


\* C15: square-and-multiply: for every base b and exponent e of the field,
\* efficient_exponentiation (in the circuit) and compute_power (out of it)
\* give b^e with e read as a non-negative integer; e = 0 gives 1, also for
\* b = 0, and b = 0 with e > 0 gives 0.
C15_SquareAndMultiply ==
    Returned("power") =>
        /\ output.in_circuit = FieldPow(q, input.base, input.exp)
        /\ output.out_of_circuit = FieldPow(q, input.base, input.exp)
        /\ input.exp = 0 => (output.in_circuit = 1 /\ output.out_of_circuit = 1)
        /\ (input.base = 0 /\ input.exp > 0) =>
               (output.in_circuit = 0 /\ output.out_of_circuit = 0)
\* 0^0 = 1 computed by both loops
C15_Witness ==
    /\ Returned("power") /\ input.base = 0 /\ input.exp = 0
    /\ output.in_circuit = 1 /\ output.out_of_circuit = 1


\* C16: ElGamal decrypt-after-encrypt: for every hdk, message m and nonce y,
\* with c1 = g^y, h = g^hdk and c2 = m * h^y, the value c2 * (c1^hdk)^(-1)
\* is m: the assertion of setup_elgamal and of test_circuit_correctness
\* holds, and c1^hdk is not zero, so the inverse that is unwrapped exists.
C16_DecryptAfterEncrypt ==
    Returned("setup_elgamal") =>
        /\ output.decrypted_s # 0
        /\ (output.decrypted_s * FpInverseOrZero(q, output.decrypted_s)) % q = 1
        /\ output.decrypted_message = input.message
        /\ output.asserted
        /\ output.test.s # 0
        /\ output.test.decrypted = input.message
\* a message other than 0 and 1 under a key and a nonce other than 0 and 1
C16_Witness ==
    /\ Returned("setup_elgamal")
    /\ input.hdk > 1 /\ input.y > 1 /\ input.message > 1
    /\ output.c.ct[2] # input.message
    /\ output.decrypted_message = input.message


IsPrefix(s, t) == Len(s) <= Len(t) /\ SubSeq(t, 1, Len(s)) = s

WithHdk(c, h) == [c EXCEPT !.hdk = h]

\* C20: the witness does not leak into the public inputs: for the ElGamal
\* relation, syntheses with the same (c1, c2, bid) and any witness hdk give
\* the same instance assignment, and so the same extracted public inputs,
\* whether or not the system they give is satisfied.
C20_WitnessNotInPublicInputs ==
    (rel = "elgamal" /\ Synthesized) =>
        \A h \in Scalars(q) :
            /\ Synthesize(rel, q, WithHdk(circuit, h)).instance = cs.instance
            /\ extract_public_inputs(rel, q, WithHdk(circuit, h)) = Tail(cs.instance)
\* a satisfied system whose public inputs are also those of a witness that
\* does not satisfy the relation
C20_Witness ==
    /\ rel = "elgamal" /\ Synthesized /\ is_satisfied(cs)
    /\ \E h \in Scalars(q) :
          /\ h # circuit.hdk
          /\ ~is_satisfied(Synthesize(rel, q, WithHdk(circuit, h)))
          /\ Synthesize(rel, q, WithHdk(circuit, h)).instance = cs.instance


====
